---------------------------- MODULE Spec2Model ----------------------------
(***************************************************************************)
(* jim: a terminal text viewer/editor.                                     *)
(*                                                                         *)
(* The model covers Backend (src/src/backend.rs, the line buffer) and      *)
(* Editor (src/src/main.rs, the viewport/cursor controller and its event   *)
(* loop).                                                                  *)
(*                                                                         *)
(* Strings are sequences of bytes (Rust's String is UTF-8 and every index  *)
(* and length in the source is a byte index / byte length).                *)
(*                                                                         *)
(* usize: every usize of the source is a 64-bit unsigned integer.  A value *)
(* v in [0, 2^64) is represented by the integer v when v < 2^63 and by     *)
(* v - 2^64 otherwise (its two's-complement reading).  With this           *)
(* representation wrapping addition and subtraction modulo 2^64 are plain  *)
(* integer + and -, as long as magnitudes stay far below 2^63, which the   *)
(* bounds of the model guarantee; the unsigned order is ULt below.         *)
(* Arithmetic overflow is defined by the build profile: with overflow      *)
(* checks (debug profile) the operation panics, without them (release      *)
(* profile) it wraps.  The profile is chosen in Init.                      *)
(***************************************************************************)
EXTENDS Integers, Sequences, FiniteSets, TLC

VARIABLES
    main_data,        \* the String `data` main holds before Editor::new; it is moved into
                      \* Backend::new, so it is empty once the editor exists
    editor,           \* the Editor struct: backend, screen_size, visible_cursor,
                      \* cursor, offset, current_row
    pc,               \* position of Editor::run: "render", "read", "exited", "panicked"
                      \* ("new" before Editor::new has run)
    event,            \* the event most recently returned by event::read(), "None"
                      \* once the loop has gone round to the next rerender
    plan,             \* what the most recent step wrote to the terminal
    overflow_checks   \* build profile: TRUE = arithmetic overflow panics

vars == <<main_data, editor, pc, event, plan, overflow_checks>>

---------------------------------------------------------------------------
(* Bounds *)

MaxDataChars == 1     \* characters in the raw text the buffer is built from
MaxScreenRows == 2    \* largest terminal height delivered by size() / Resize
MaxBytes == 3         \* typing stops once the buffer holds this many bytes
MaxN == 2             \* largest n passed to a move in the command-level specification

\* The terminal widths delivered by size() / Resize.  No operation reads
\* screen_size.col, so two values suffice.
ScreenCols == {0, 1}

---------------------------------------------------------------------------
(* Bytes and characters *)

LF == 10
CR == 13

\* The characters raw text is made of, each as its UTF-8 encoding:
\* '\n', '\r' and 'a'.
DataChars == {<<10>>, <<13>>, <<97>>}

\* The characters a KeyCode::Char event carries: 'a' and the two-byte
\* 'e-acute'.
TypedChars == {<<97>>, <<195, 169>>}

\* str::is_char_boundary: index 0, the length, or a byte that is not a
\* UTF-8 continuation byte (0x80..0xBF).
is_char_boundary(s, i) ==
    \/ i = 0
    \/ i = Len(s)
    \/ /\ i > 0
       /\ i < Len(s)
       /\ ~(s[i + 1] >= 128 /\ s[i + 1] < 192)

\* Number of characters (not bytes) of a string.
chars_count(s) == Cardinality({i \in 1..Len(s) : ~(s[i] >= 128 /\ s[i] < 192)})

---------------------------------------------------------------------------
(* usize arithmetic *)

\* unsigned a < b on representatives
ULt(a, b) ==
    \/ a >= 0 /\ b >= 0 /\ a < b
    \/ a < 0 /\ b < 0 /\ a < b
    \/ a >= 0 /\ b < 0

\* a + b does not fit in a usize
AddOverflows(a, b) ==
    \/ a < 0 /\ b < 0
    \/ a < 0 /\ b >= 0 /\ a + b >= 0
    \/ a >= 0 /\ b < 0 /\ a + b >= 0

\* a - b is below zero
SubOverflows(a, b) == ULt(a, b)

\* usize::saturating_sub
saturating_sub(a, b) == IF ULt(a, b) THEN 0 ELSE a - b

\* cmp::min on usize
cmp_min(a, b) == IF ULt(b, a) THEN b ELSE a

\* `x as u16`
as_u16(x) == x % 65536

---------------------------------------------------------------------------
(* Backend *)

RECURSIVE split_lf(_)
\* str::split('\n'): the segments between line feeds, at least one.
split_lf(s) ==
    IF \A i \in 1..Len(s) : s[i] # LF
    THEN <<s>>
    ELSE LET k == CHOOSE i \in 1..Len(s) : s[i] = LF /\ \A j \in 1..(i - 1) : s[j] # LF
         IN  <<SubSeq(s, 1, k - 1)>> \o split_lf(SubSeq(s, k + 1, Len(s)))

RECURSIVE strip_all_cr(_)
\* strip_cr dropping every trailing '\r' (trim_end_matches('\r')).
strip_all_cr(line) ==
    LET l == Len(line)
    IN  IF l > 0 /\ line[l] = CR THEN strip_all_cr(SubSeq(line, 1, l - 1)) ELSE line

\* the closure of Backend::new: drop one trailing '\r'
strip_cr(line) ==
    LET l == Len(line)
    IN  IF l > 0 /\ line[l] = CR THEN SubSeq(line, 1, l - 1) ELSE line

\* Backend::new that drops a final empty segment, as str::lines() does.
Backend_new_lines(data) ==
    LET segs == split_lf(data)
        n    == IF segs[Len(segs)] = <<>> THEN Len(segs) - 1 ELSE Len(segs)
    IN  [i \in 1..n |-> strip_cr(segs[i])]

Backend_new(data) ==
    LET segs == split_lf(data)
    IN  [i \in 1..Len(segs) |-> strip_cr(segs[i])]

\* Backend::get_row: None is modelled by has_row being FALSE.
has_row(lines, i) == i >= 0 /\ i < Len(lines)
get_row(lines, i) == lines[i + 1]

row_length(lines) == Len(lines)

\* Backend::insert panics exactly when str::split_at is reached with an
\* index that is not a character boundary.
insert_panics(lines, l, i) ==
    /\ has_row(lines, l)
    /\ LET x == get_row(lines, l)
       IN  /\ ~(i = 0 \/ Len(x) = 0)
           /\ ~ULt(Len(x) - 1, i)
           /\ ~is_char_boundary(x, i)

\* Backend::insert that adds a line when the row is past the end.
Backend_insert_pushing(lines, l, i, s) ==
    IF ~has_row(lines, l) THEN Append(lines, s)
    ELSE LET x == get_row(lines, l)
         IN  IF i = 0 \/ Len(x) = 0
                 THEN [lines EXCEPT ![l + 1] = s \o x]
             ELSE IF ULt(Len(x) - 1, i)
                 THEN [lines EXCEPT ![l + 1] = x \o s]
             ELSE [lines EXCEPT ![l + 1] =
                       SubSeq(x, 1, i) \o s \o SubSeq(x, i + 1, Len(x))]

\* Backend::insert, when it does not panic.
Backend_insert(lines, l, i, s) ==
    IF ~has_row(lines, l) THEN lines
    ELSE LET x == get_row(lines, l)
         IN  IF i = 0 \/ Len(x) = 0
                 THEN [lines EXCEPT ![l + 1] = s \o x]
             ELSE IF ULt(Len(x) - 1, i)
                 THEN [lines EXCEPT ![l + 1] = x \o s]
             ELSE [lines EXCEPT ![l + 1] =
                       SubSeq(x, 1, i) \o s \o SubSeq(x, i + 1, Len(x))]

---------------------------------------------------------------------------
(* Editor *)

Coord(c, r) == [col |-> c, row |-> r]

\* Editor::new: the buffer built from the text, the terminal's size, and
\* everything else at its default.
Editor_new(data, c, r) ==
    [backend        |-> Backend_new(data),
     screen_size    |-> Coord(c, r),
     visible_cursor |-> Coord(0, 0),
     cursor         |-> Coord(0, 0),
     offset         |-> Coord(0, 0),
     current_row    |-> 0]

\* The result of a method: the struct as the method leaves it (as far as it
\* got when it panics) and whether it panicked.
Ret(self, p) == [self |-> self, panic |-> p]

action_up(self, n0) ==
    LET n  == cmp_min(self.current_row, n0)
        s1 == [self EXCEPT !.current_row = @ - n]
        s2 == IF ULt(self.visible_cursor.row, n)
              THEN [s1 EXCEPT !.offset.row =
                        saturating_sub(@, n - self.visible_cursor.row)]
              ELSE s1
        s3 == [s2 EXCEPT !.visible_cursor.row = saturating_sub(@, n)]
    IN  Ret(s3, FALSE)

\* action_down without the clamp of n to the last line (lines 120-122).
action_down_unclamped(self, n0, chk) ==
    LET content_row == row_length(self.backend)
        s1   == [self EXCEPT !.current_row = @ + n0, !.visible_cursor.row = @ + n0]
        room == self.screen_size.row - 1
        over == saturating_sub(s1.visible_cursor.row, room)
        s2   == [s1 EXCEPT !.offset.row = @ + over]
        s4   == [s2 EXCEPT !.visible_cursor.row = cmp_min(@, room)]
    IN  IF chk /\ SubOverflows(self.screen_size.row, 1)
        THEN Ret(s1, TRUE)
        ELSE Ret(s4, FALSE)

action_down(self, n0, chk) ==
    LET content_row == row_length(self.backend)
        last == content_row - 1
        n    == IF ULt(last, self.current_row + n0)
                THEN n0 - ((self.current_row + n0) - last)
                ELSE n0
        s1   == [self EXCEPT !.current_row = @ + n, !.visible_cursor.row = @ + n]
        room == self.screen_size.row - 1
        over == saturating_sub(s1.visible_cursor.row, room)
        s2   == [s1 EXCEPT !.offset.row = @ + over]
        s3   == IF ULt(content_row, s2.offset.row + self.screen_size.row)
                THEN [s2 EXCEPT !.offset.row = content_row - self.screen_size.row]
                ELSE s2
        s4   == [s3 EXCEPT !.visible_cursor.row = cmp_min(@, room)]
    IN  IF chk /\ SubOverflows(content_row, 1)
            THEN Ret(self, TRUE)                                  \* line 120
        ELSE IF chk /\ SubOverflows(self.screen_size.row, 1)
            THEN Ret(s1, TRUE)                                    \* line 129
        ELSE IF chk /\ AddOverflows(s1.offset.row, over)
            THEN Ret(s1, TRUE)                                    \* line 126
        ELSE IF chk /\ AddOverflows(s2.offset.row, self.screen_size.row)
            THEN Ret(s2, TRUE)                                    \* line 130
        ELSE IF /\ chk
                /\ ULt(content_row, s2.offset.row + self.screen_size.row)
                /\ SubOverflows(content_row, self.screen_size.row)
            THEN Ret(s2, TRUE)                                    \* line 131
        ELSE Ret(s4, FALSE)

\* action_left starting from the logical target instead of the drawn column.
action_left_from_target(self, n) ==
    [self EXCEPT !.cursor.col = saturating_sub(@, n)]

action_left(self, n) ==
    LET s1 == [self EXCEPT !.cursor.col = self.visible_cursor.col]
    IN  [s1 EXCEPT !.cursor.col = saturating_sub(@, n)]

\* action_right without the clamp to the line length.
action_right_unclamped(self, n) ==
    IF has_row(self.backend, self.current_row)
    THEN [self EXCEPT !.cursor.col = @ + n]
    ELSE self

action_right(self, n) ==
    IF has_row(self.backend, self.current_row)
    THEN LET t == get_row(self.backend, self.current_row)
         IN  [self EXCEPT !.cursor.col = cmp_min(@ + n, Len(t))]
    ELSE self

\* normalize_visible_cursor left out of the render pass.
normalize_skipped(self) == self

\* normalize_visible_cursor that also writes the clamped column back into
\* the logical cursor.
normalize_forgetting_column(self) ==
    IF has_row(self.backend, self.current_row)
    THEN LET t == get_row(self.backend, self.current_row)
             c == cmp_min(self.cursor.col, Len(t))
         IN  [self EXCEPT !.visible_cursor.col = c, !.cursor.col = c]
    ELSE self

normalize_visible_cursor(self) ==
    IF has_row(self.backend, self.current_row)
    THEN LET t == get_row(self.backend, self.current_row)
         IN  [self EXCEPT !.visible_cursor.col = cmp_min(self.cursor.col, Len(t))]
    ELSE self

\* The Char arm of Editor::run: Backend::insert at the drawn column, then
\* action_right(1).
insert_character(self, c) ==
    IF insert_panics(self.backend, self.current_row, self.visible_cursor.col)
    THEN Ret(self, TRUE)
    ELSE LET s1 == [self EXCEPT !.backend =
                        Backend_insert(@, self.current_row, self.visible_cursor.col, c)]
         IN  Ret(action_right(s1, 1), FALSE)

\* A Resize arm that also clamps the cursor's screen row to the new height.
resize_reclamping(self, c, r) ==
    [self EXCEPT !.screen_size = Coord(c, r),
                 !.visible_cursor.row = cmp_min(@, saturating_sub(r, 1))]

\* The Resize arm of Editor::run.
resize(self, c, r) == [self EXCEPT !.screen_size = Coord(c, r)]

---------------------------------------------------------------------------
(* The terminal commands of a render pass *)

Cmd(op, text, c, r) == [op |-> op, text |-> text, col |-> c, row |-> r]

CRLF == <<13, 10>>

\* The commands rerender queues for screen row i (0-based).
row_cmds(self, i) ==
    IF has_row(self.backend, self.offset.row + i)
    THEN <<Cmd("Print", get_row(self.backend, self.offset.row + i), 0, 0),
           Cmd("ClearUntilNewLine", <<>>, 0, 0)>>
         \o (IF i < self.screen_size.row - 1
             THEN <<Cmd("Print", CRLF, 0, 0)>>
             ELSE <<>>)
    ELSE <<Cmd("ClearUntilNewLine", <<>>, 0, 0)>>

RECURSIVE rows_cmds(_, _)
\* The commands of screen rows 0 .. k-1, in the order of the for loop.
rows_cmds(self, k) ==
    IF k = 0 THEN <<>> ELSE rows_cmds(self, k - 1) \o row_cmds(self, k - 1)

\* Editor::rerender: the struct after normalize_visible_cursor and the
\* commands written.
rerender_plan(self) ==
    LET s1 == normalize_visible_cursor(self)
    IN  <<Cmd("Hide", <<>>, 0, 0), Cmd("MoveTo", <<>>, 0, 0)>>
        \o rows_cmds(s1, s1.screen_size.row)
        \o <<Cmd("MoveTo", <<>>, as_u16(s1.visible_cursor.col),
                                 as_u16(s1.visible_cursor.row)),
             Cmd("Show", <<>>, 0, 0)>>

\* rerender panics when `self.offset.row + i` overflows under overflow checks.
rerender_panics(self, chk) ==
    chk /\ \E i \in 0..(self.screen_size.row - 1) : AddOverflows(self.offset.row, i)

---------------------------------------------------------------------------
(* Editor::run *)

RECURSIVE Strs(_)
\* Every text of at most k characters of DataChars.
Strs(k) ==
    IF k = 0 THEN {<<>>}
    ELSE LET P == Strs(k - 1) IN P \cup {s \o c : s \in P, c \in DataChars}

RawInputs == Strs(MaxDataChars)

RECURSIVE total_bytes(_)
total_bytes(lines) ==
    IF lines = <<>> THEN 0 ELSE Len(Head(lines)) + total_bytes(Tail(lines))

Init ==
    /\ \E d \in RawInputs, c \in ScreenCols, r \in 0..MaxScreenRows :
          editor = Editor_new(d, c, r)
    /\ main_data = <<>>
    /\ pc = "render"
    /\ event = "None"
    /\ plan = <<>>
    /\ overflow_checks \in BOOLEAN

\* The head of the loop: self.rerender()
Rerender ==
    /\ pc = "render"
    /\ editor' = normalize_visible_cursor(editor)
    /\ IF rerender_panics(editor, overflow_checks)
       THEN pc' = "panicked" /\ plan' = <<>>
       ELSE pc' = "read" /\ plan' = rerender_plan(editor)
    /\ event' = "None"
    /\ UNCHANGED <<main_data, overflow_checks>>

\* What every arm of the match does after its handler returned r.
Handled(kind, r) ==
    /\ editor' = r.self
    /\ pc' = IF r.panic THEN "panicked" ELSE "render"
    /\ event' = kind
    /\ plan' = <<>>
    /\ UNCHANGED <<main_data, overflow_checks>>

KeyExit ==
    /\ pc = "read"
    /\ pc' = "exited"
    /\ event' = "Exit"
    /\ plan' = <<>>
    /\ UNCHANGED <<main_data, editor, overflow_checks>>

KeyChar ==
    /\ pc = "read"
    /\ total_bytes(editor.backend) < MaxBytes
    /\ \E c \in TypedChars : Handled("Char", insert_character(editor, c))

KeyLeft ==
    /\ pc = "read"
    /\ Handled("Left", Ret(action_left(editor, 1), FALSE))

KeyRight ==
    /\ pc = "read"
    /\ Handled("Right", Ret(action_right(editor, 1), FALSE))

KeyUp ==
    /\ pc = "read"
    /\ Handled("Up", action_up(editor, 1))

KeyDown ==
    /\ pc = "read"
    /\ Handled("Down", action_down(editor, 1, overflow_checks))

\* Key(Enter): unimplemented!()
KeyEnter ==
    /\ pc = "read"
    /\ Handled("Enter", Ret(editor, TRUE))

Resize ==
    /\ pc = "read"
    /\ \E c \in ScreenCols, r \in 0..MaxScreenRows :
          Handled("Resize", Ret(resize(editor, c, r), FALSE))

\* The `_ => {}` arm: every other event.
OtherEvent ==
    /\ pc = "read"
    /\ Handled("Other", Ret(editor, FALSE))

Next ==
    \/ Rerender
    \/ KeyExit
    \/ KeyChar
    \/ KeyLeft
    \/ KeyRight
    \/ KeyUp
    \/ KeyDown
    \/ KeyEnter
    \/ Resize
    \/ OtherEvent

Spec == Init /\ [][Next]_vars

---------------------------------------------------------------------------
(* The move commands on their own: action_up(n) and action_down(n) applied  *)
(* in any order from the state Editor::new builds, the screen size never    *)
(* changing, a render pass wherever the loop would make one.                *)

Alive == pc \in {"render", "read"}

MoveUp ==
    /\ Alive
    /\ \E n \in 0..MaxN : Handled("Up", action_up(editor, n))

MoveDown ==
    /\ Alive
    /\ \E n \in 0..MaxN : Handled("Down", action_down(editor, n, overflow_checks))

NextMoves ==
    \/ Rerender
    \/ MoveUp
    \/ MoveDown

SpecMoves == Init /\ [][NextMoves]_vars

---------------------------------------------------------------------------
(* Abbreviations used by the properties *)

Lines == editor.backend
RowLength == row_length(editor.backend)
CurrentLine == get_row(editor.backend, editor.current_row)

Min(a, b) == IF a < b THEN a ELSE b
Max(a, b) == IF a > b THEN a ELSE b

MoveEvents == {"Up", "Down", "Left", "Right", "Resize"}

---------------------------------------------------------------------------
(* Properties *)

\* C1: in every state of the running editor, current_row equals
\* offset.row + visible_cursor.row.  Stated for the build with overflow
\* checks, where no field can hold a wrapped value.
C1_RowRelation ==
    (overflow_checks /\ pc # "panicked")
        => editor.current_row = editor.offset.row + editor.visible_cursor.row

\* C2: no up, down, left, right or resize event makes the editor panic.
C2_MovesNeverPanic ==
    ~(pc = "panicked" /\ event \in MoveEvents)

\* C3: under move_up / move_down alone (screen size unchanged) current_row
\* stays within [0, row_length() - 1], and offset.row + screen_size.row <=
\* row_length() whenever row_length() >= screen_size.row.
C3_MovesKeepBounds ==
    /\ has_row(Lines, editor.current_row)
    /\ RowLength >= editor.screen_size.row
           => /\ editor.offset.row >= 0
              /\ editor.offset.row + editor.screen_size.row <= RowLength

\* C3 witness: moves have scrolled the view down to the end of a buffer
\* that is longer than the screen.
C3_Witness ==
    /\ event = "Down"
    /\ pc = "render"
    /\ editor.screen_size.row >= 1
    /\ RowLength > editor.screen_size.row
    /\ editor.current_row = RowLength - 1
    /\ editor.offset.row + editor.screen_size.row = RowLength

\* C4: after every render pass visible_cursor.row < screen_size.row and
\* visible_cursor.col <= length of the current line.  Stated for screens of
\* at least one row and for the build with overflow checks.
C4_RenderRestoresVisibleCursor ==
    (pc = "read" /\ overflow_checks /\ editor.screen_size.row >= 1)
        => /\ editor.visible_cursor.row < editor.screen_size.row
           /\ editor.visible_cursor.col <= Len(CurrentLine)

\* C5: in every state of the running editor, offset.row + screen_size.row
\* <= row_length() whenever row_length() >= screen_size.row.  Stated for
\* the build with overflow checks.
C5_ViewWithinBuffer ==
    (overflow_checks /\ pc # "panicked" /\ RowLength >= editor.screen_size.row)
        => editor.offset.row + editor.screen_size.row <= RowLength

\* C6: when the buffer has fewer lines than the screen has rows, move_down(n)
\* completes, leaves offset.row at 0 and makes visible_cursor.row equal to
\* current_row.  (action_down changes neither the buffer nor the screen
\* size, so the condition is the same before and after the move.)
C6_ShortBufferNeverScrolls ==
    (event = "Down" /\ RowLength < editor.screen_size.row)
        => /\ pc # "panicked"
           /\ editor.offset.row = 0
           /\ editor.visible_cursor.row = editor.current_row

\* C7: for a buffer of at least screen_size.row lines and a state with
\* current_row = offset.row + visible_cursor.row, move_down(1) adds
\* m = min(1, row_length() - 1 - current_row) to current_row, makes
\* visible_cursor.row min(visible_cursor.row + m, screen_size.row - 1) and
\* adds max(0, visible_cursor.row + m - (screen_size.row - 1)) to offset.row.
\* Stated for screens of at least one row and the build with overflow checks.
C7_MoveDownFormula ==
    [][ ( /\ KeyDown
          /\ overflow_checks
          /\ editor.screen_size.row >= 1
          /\ RowLength >= editor.screen_size.row
          /\ editor.current_row = editor.offset.row + editor.visible_cursor.row )
        => LET m == Min(1, RowLength - 1 - editor.current_row)
           IN  /\ pc' # "panicked"
               /\ editor'.current_row = editor.current_row + m
               /\ editor'.visible_cursor.row =
                      Min(editor.visible_cursor.row + m, editor.screen_size.row - 1)
               /\ editor'.offset.row =
                      editor.offset.row
                      + Max(0, editor.visible_cursor.row + m
                                   - (editor.screen_size.row - 1)) ]_vars

\* C8: sticky column.  An up or down move never changes cursor.col, a render
\* pass never changes cursor.col either, and after every render pass
\* visible_cursor.col = min(cursor.col, length of the current line).
C8_StickyColumn ==
    [][ /\ (KeyUp \/ KeyDown) => editor'.cursor.col = editor.cursor.col
        /\ Rerender =>
              /\ editor'.cursor.col = editor.cursor.col
              /\ editor'.visible_cursor.col =
                     Min(editor.cursor.col,
                         Len(get_row(editor'.backend, editor'.current_row))) ]_vars

\* C8 witness: after an up or down move and the render that follows it the
\* cursor is drawn at the end of a line shorter than the remembered column.
C8_Witness ==
    /\ pc = "read"
    /\ editor.current_row > 0
    /\ editor.visible_cursor.col = Len(CurrentLine)
    /\ editor.cursor.col > editor.visible_cursor.col

\* C9: typing a character never makes the editor fail.
C9_TypingNeverFails ==
    ~(pc = "panicked" /\ event = "Char")

\* C10: a typed character c, inserted by insert(current_row,
\* visible_cursor.col, c), replaces the current line x by
\* x[0..k] + c + x[k..] with k = min(col, length of x); the number of rows and
\* every other row are unchanged and the line grows by one character.
C10_InsertSplices ==
    [][ KeyChar =>
          LET x == CurrentLine
              k == Min(editor.visible_cursor.col, Len(x))
              y == get_row(editor'.backend, editor.current_row)
          IN  /\ pc' # "panicked"
              /\ \E c \in TypedChars :
                    y = SubSeq(x, 1, k) \o c \o SubSeq(x, k + 1, Len(x))
              /\ chars_count(y) = chars_count(x) + 1
              /\ Len(editor'.backend) = Len(editor.backend)
              /\ \A i \in 1..Len(editor.backend) :
                    i # editor.current_row + 1
                        => editor'.backend[i] = editor.backend[i] ]_vars

---------------------------------------------------------------------------
(* Backend::insert on its own: insert(l, i, s) called with any row, any     *)
(* column and any character on the buffer Backend::new built.               *)

\* One call of Backend::insert on the editor's buffer: the buffer after it,
\* or the panic of split_at.
insert_call(self, l, i, s) ==
    IF insert_panics(self.backend, l, i)
    THEN Ret(self, TRUE)
    ELSE Ret([self EXCEPT !.backend = Backend_insert(@, l, i, s)], FALSE)

\* The rows that are out of range: the first ones past the end, and
\* usize::MAX (whose representative is -1).
RowsBeyond == (RowLength .. (RowLength + MaxN)) \cup {-1}

InsertAtRow ==
    /\ Alive
    /\ total_bytes(editor.backend) < MaxBytes
    /\ \E l \in 0..(RowLength - 1), i \in 0..(MaxBytes + 1), s \in TypedChars :
          Handled("Insert", insert_call(editor, l, i, s))

InsertBeyond ==
    /\ Alive
    /\ \E l \in RowsBeyond, i \in 0..(MaxBytes + 1), s \in TypedChars :
          Handled("InsertBeyond", insert_call(editor, l, i, s))

NextInsert ==
    \/ InsertAtRow
    \/ InsertBeyond

SpecInsert == Init /\ [][NextInsert]_vars

\* C11: insert(row, col, char) with row >= row_length() changes no line and
\* not the number of lines, and raises no error, for every col and char.
C11_InsertBeyondIsNoOp ==
    [][ InsertBeyond => (editor'.backend = editor.backend /\ pc' # "panicked") ]_vars

\* C11 witness: an insert with an out-of-range row has been made on a buffer
\* that holds text.
C11_Witness ==
    /\ event = "InsertBeyond"
    /\ pc = "render"
    /\ total_bytes(editor.backend) > 0

---------------------------------------------------------------------------
(* Construction on its own: Editor::new applied to any text.                *)

MaxRawChars == 3      \* characters in the text handed to Editor::new here

\* No editor yet.
NoEditor ==
    [backend        |-> <<>>,
     screen_size    |-> Coord(0, 0),
     visible_cursor |-> Coord(0, 0),
     cursor         |-> Coord(0, 0),
     offset         |-> Coord(0, 0),
     current_row    |-> 0]

InitConstruct ==
    /\ main_data \in Strs(MaxRawChars)
    /\ editor = NoEditor
    /\ pc = "new"
    /\ event = "None"
    /\ plan = <<>>
    /\ overflow_checks \in BOOLEAN

\* let mut editor = Editor::new(stdout(), data)?
Construct ==
    /\ pc = "new"
    /\ \E c \in ScreenCols, r \in 0..MaxScreenRows :
          editor' = Editor_new(main_data, c, r)
    /\ main_data' = <<>>
    /\ pc' = "render"
    /\ UNCHANGED <<event, plan, overflow_checks>>

SpecConstruct == InitConstruct /\ [][Construct]_vars

\* The positions of the line feeds of a text, and its k-th segment between
\* line feeds (k = 1 .. number of line feeds + 1).
LFPositions(d) == {i \in 1..Len(d) : d[i] = LF}

NthLF(d, k) ==
    CHOOSE p \in LFPositions(d) : Cardinality({q \in LFPositions(d) : q < p}) = k - 1

Segment(d, k) ==
    LET a == IF k = 1 THEN 1 ELSE NthLF(d, k - 1) + 1
        b == IF k = Cardinality(LFPositions(d)) + 1 THEN Len(d) ELSE NthLF(d, k) - 1
    IN  SubSeq(d, a, b)

\* C12: construction yields 1 + (number of line feeds) lines; each line is
\* its segment with exactly one trailing carriage return removed when the
\* segment ends in one, and the segment itself otherwise; no line holds a
\* line feed.
C12_ConstructSplitsLines ==
    [][ Construct =>
          LET ls == editor'.backend
          IN  /\ Len(ls) = 1 + Cardinality(LFPositions(main_data))
              /\ \A k \in 1..Len(ls) :
                    LET seg == Segment(main_data, k)
                    IN  /\ IF seg # <<>> /\ seg[Len(seg)] = CR
                           THEN ls[k] = SubSeq(seg, 1, Len(seg) - 1)
                           ELSE ls[k] = seg
                        /\ \A j \in 1..Len(ls[k]) : ls[k][j] # LF ]_vars

\* C12 witness: a buffer of two lines whose first line still ends in a
\* carriage return (its segment ended in two).
C12_Witness ==
    /\ pc = "render"
    /\ Len(editor.backend) = 2
    /\ editor.backend[1] = <<CR>>

---------------------------------------------------------------------------
(* Properties of the event loop, continued *)

\* C13: a character-typed event inserts its character c into the current
\* line at the column where the cursor is drawn, and after the render that
\* follows the drawn column is one greater than before.
C13_TypedCharAdvances ==
    [][ KeyChar =>
          LET x == CurrentLine
              v == editor.visible_cursor.col
              y == get_row(editor'.backend, editor.current_row)
          IN  /\ pc' # "panicked"
              /\ \E c \in TypedChars :
                    y = SubSeq(x, 1, v) \o c \o SubSeq(x, v + 1, Len(x))
              /\ normalize_visible_cursor(editor').visible_cursor.col = v + 1
              /\ x = <<>> => chars_count(y) = 1 ]_vars

\* C14: an event that is not a character, a direction, an exit or a resize
\* (the Enter key, any other event) changes nothing and the loop goes on.
C14_OtherEventsIgnored ==
    [][ (KeyEnter \/ OtherEvent) => (editor' = editor /\ pc' = "render") ]_vars

---------------------------------------------------------------------------
(* The render pass on its own: rerender after any moves, on screens of up   *)
(* to MaxRenderRows rows.                                                   *)

MaxRenderRows == 3

InitRender ==
    /\ \E d \in RawInputs, c \in ScreenCols, r \in 0..MaxRenderRows :
          editor = Editor_new(d, c, r)
    /\ main_data = <<>>
    /\ pc = "render"
    /\ event = "None"
    /\ plan = <<>>
    /\ overflow_checks \in BOOLEAN

SpecRender == InitRender /\ [][NextMoves]_vars

RECURSIVE draws(_, _)
\* What the terminal does with the commands, its cursor on row r: the
\* sequence of draws, each the row it lands on and the text printed there
\* (<<>> for a bare clear); the clear that follows the print of a line
\* belongs to that line's draw.  Print("\r\n") moves the cursor to the next row,
\* MoveTo to the row it names; no other command changes the row.
draws(cmds, r) ==
    IF cmds = <<>> THEN <<>>
    ELSE LET c == Head(cmds)
             rest == Tail(cmds)
         IN  IF c.op = "MoveTo" THEN draws(rest, c.row)
             ELSE IF c.op = "Print" /\ c.text = CRLF THEN draws(rest, r + 1)
             ELSE IF c.op = "Print"
                 THEN <<[row |-> r, text |-> c.text]>> \o draws(Tail(rest), r)
             ELSE IF c.op = "ClearUntilNewLine"
                 THEN <<[row |-> r, text |-> <<>>]>> \o draws(rest, r)
             ELSE draws(rest, r)

\* C15: a render pass for a screen of R rows makes R draws that land on the
\* screen rows 0 .. R-1 in this order; row i gets the text of buffer line
\* offset.row + i when that line exists and a bare clear when it does not;
\* no line break follows the last row's draw; the commands end with the
\* positioning of the cursor at (visible_cursor.col, visible_cursor.row).
C15_RenderPlan ==
    (pc = "read" /\ overflow_checks)
        => LET R == editor.screen_size.row
               d == draws(plan, 0)
           IN  /\ Len(d) = R
               /\ \A i \in 0..(R - 1) :
                     /\ d[i + 1].row = i
                     /\ d[i + 1].text =
                            IF has_row(Lines, editor.offset.row + i)
                            THEN get_row(Lines, editor.offset.row + i)
                            ELSE <<>>
               /\ Len(plan) >= 4
               /\ plan[Len(plan) - 2] # Cmd("Print", CRLF, 0, 0)
               /\ plan[Len(plan) - 1] =
                      Cmd("MoveTo", <<>>, editor.visible_cursor.col,
                                          editor.visible_cursor.row)

---------------------------------------------------------------------------
(* Properties of the event loop: columns, frames, the loop itself *)

\* C16: move_left(n) starts from the drawn column: with v the drawn column
\* when the event is read, after move_left(n) and the next render
\* cursor.col = visible_cursor.col = max(0, v - n); the Left key is
\* move_left(1).
C16_LeftFromDrawnColumn ==
    [][ /\ pc = "read" =>
              \A n \in 0..MaxN :
                  LET after == normalize_visible_cursor(action_left(editor, n))
                      want  == Max(0, editor.visible_cursor.col - n)
                  IN  after.cursor.col = want /\ after.visible_cursor.col = want
        /\ KeyLeft => editor' = action_left(editor, 1) ]_vars

\* C16 witness: a Left key has moved the target one column left of the end
\* of the current line, where the cursor was drawn, and a longer line
\* exists.
C16_Witness ==
    /\ event = "Left"
    /\ pc = "render"
    /\ editor.visible_cursor.col = Len(CurrentLine)
    /\ editor.cursor.col + 1 = editor.visible_cursor.col
    /\ \E i \in 1..RowLength : Len(Lines[i]) > Len(CurrentLine)

\* C17: move_right(n) sets cursor.col to min(cursor.col + n, length of the
\* current line) and changes nothing else; so cursor.col <= the length
\* afterwards, at the end of a line the drawn cursor stays in place, and
\* on a row that has no line move_right changes nothing.  The Right key is
\* move_right(1).
C17_RightClampsToLine ==
    [][ /\ pc = "read" =>
              \A n \in 0..MaxN :
                  LET after == action_right(editor, n)
                      len   == Len(CurrentLine)
                  IN  /\ after = [editor EXCEPT
                                     !.cursor.col = Min(editor.cursor.col + n, len)]
                      /\ after.cursor.col <= len
                      /\ editor.visible_cursor.col = len
                            => normalize_visible_cursor(after).visible_cursor.col = len
                      /\ LET gone == [editor EXCEPT !.current_row = RowLength]
                         IN  action_right(gone, n) = gone
        /\ KeyRight => editor' = action_right(editor, 1) ]_vars

\* C17 witness: a Right key at the end of a line that holds text: the target
\* is the line length, where the cursor was already drawn.
C17_Witness ==
    /\ event = "Right"
    /\ pc = "render"
    /\ Len(CurrentLine) > 0
    /\ editor.cursor.col = Len(CurrentLine)
    /\ editor.visible_cursor.col = Len(CurrentLine)

\* C18: a resize event changes screen_size and nothing else of the editor;
\* a render pass changes nothing but visible_cursor.col.
C18_ResizeAndRenderFrames ==
    [][ /\ Resize =>
              /\ editor' = [editor EXCEPT !.screen_size = editor'.screen_size]
              /\ editor'.screen_size.col \in ScreenCols
              /\ editor'.screen_size.row \in 0..MaxScreenRows
        /\ Rerender =>
              editor' = [editor EXCEPT
                            !.visible_cursor.col = editor'.visible_cursor.col] ]_vars

\* C18 witness: after a resize the cursor's screen row is still the one it
\* had, below the last row of the new screen.
C18_Witness ==
    /\ event = "Resize"
    /\ overflow_checks
    /\ editor.screen_size.row >= 1
    /\ editor.visible_cursor.row >= editor.screen_size.row

\* C19: an event is handled only right after a render pass and a render pass
\* is made only at the start and right after an event; so when a character
\* or left event is handled visible_cursor.col = min(cursor.col, length of
\* the current line); after an exit event nothing changes any more.
C19_OneRenderPerEvent ==
    [][ /\ pc # "exited"
        /\ pc # "panicked"
        /\ Rerender => (event' = "None" /\ pc' \in {"read", "panicked"})
        /\ pc = "read" =>
              /\ event = "None"
              /\ plan # <<>>
              /\ event' # "None"
              /\ pc' \in {"render", "exited", "panicked"}
              /\ editor.visible_cursor.col = Min(editor.cursor.col, Len(CurrentLine)) ]_vars

\* C19 witness: the loop has ended on an exit event after text was typed.
C19_Witness ==
    /\ pc = "exited"
    /\ event = "Exit"
    /\ total_bytes(Lines) > Len(Lines[1])

\* C20: the buffer always has at least one line, no step changes the number
\* of lines and no step makes a line shorter.
C20_RowCountFixed ==
    [][ /\ RowLength >= 1
        /\ row_length(editor'.backend) = RowLength
        /\ \A i \in 1..RowLength : Len(editor'.backend[i]) >= Len(Lines[i]) ]_vars

\* C20 witness: a character has been typed into a buffer of two lines.
C20_Witness ==
    /\ event = "Char"
    /\ pc = "render"
    /\ RowLength = 2
    /\ total_bytes(Lines) >= 2

=============================================================================
